---- MODULE Spec2Model ----
(***************************************************************************)
(* Model of nyaa-cli's ResultHandler (src/nyaa_cli/result_handler.py):     *)
(* the response normaliser process_results, the page window computed by    *)
(* display_results, the selection lookup get_download_link, the per-query  *)
(* cache and the page navigation, together with the search / user command  *)
(* loop of src/nyaa_cli/cli.py that drives them.                           *)
(***************************************************************************)
EXTENDS Integers, Sequences, FiniteSets, TLC

(***************************************************************************)
(* Bounds of the model.                                                    *)
(***************************************************************************)
MaxLen == 3
MaxPageSize == 2
MaxPage == 4

(***************************************************************************)
(* Python values.  Every value carries its type tag; a str is the sequence *)
(* of its characters.                                                      *)
(***************************************************************************)
PyNone == [t |-> "none"]
PyInt(n) == [t |-> "int", i |-> n]
PyStr(s) == [t |-> "str", s |-> s]
PyList(xs) == [t |-> "list", l |-> xs]
PyDict(d) == [t |-> "dict", d |-> d]
PyTuple(xs) == [t |-> "tuple", e |-> xs]

\* Outcome of a call: a returned value or a raised exception.
Ok(v) == [ok |-> TRUE, val |-> v]
Raise(e) == [ok |-> FALSE, exc |-> e]

Min(a, b) == IF a < b THEN a ELSE b
Max(a, b) == IF a > b THEN a ELSE b

Digits == <<"0", "1", "2", "3", "4", "5", "6", "7", "8", "9">>
IsDigit(c) == \E d \in 1..10 : Digits[d] = c
DigitVal(c) == (CHOOSE d \in 1..10 : Digits[d] = c) - 1
IsSpace(c) == c \in {" ", "\t", "\n"}

\* str(n) for an int n >= 0.
RECURSIVE DecStr(_)
DecStr(n) == IF n < 10 THEN <<Digits[n + 1]>>
             ELSE DecStr(n \div 10) \o <<Digits[(n % 10) + 1]>>

\* s.strip()
RECURSIVE LStrip(_)
LStrip(s) == IF s # <<>> /\ IsSpace(Head(s)) THEN LStrip(Tail(s)) ELSE s
RECURSIVE RStrip(_)
RStrip(s) == IF s # <<>> /\ IsSpace(s[Len(s)])
             THEN RStrip(SubSeq(s, 1, Len(s) - 1)) ELSE s
Strip(s) == RStrip(LStrip(s))

\* Value of a non-empty string of decimal digits.
RECURSIVE DigitsVal(_)
DigitsVal(s) == IF Len(s) = 1 THEN DigitVal(s[1])
                ELSE 10 * DigitsVal(SubSeq(s, 1, Len(s) - 1)) + DigitVal(s[Len(s)])

AllDigits(s) == s # <<>> /\ \A k \in 1..Len(s) : IsDigit(s[k])

\* int(x) of Python: an int is itself; a str is stripped, takes an optional
\* sign and must then be decimal digits, else ValueError; None is a TypeError.
PyIntOfStr(s) ==
    LET b == Strip(s)
        signed == b # <<>> /\ b[1] \in {"+", "-"}
        body == IF signed THEN Tail(b) ELSE b
    IN  IF AllDigits(body)
        THEN Ok(IF signed /\ b[1] = "-" THEN 0 - DigitsVal(body) ELSE DigitsVal(body))
        ELSE Raise("ValueError")

PyIntOf(x) ==
    CASE x.t = "int" -> Ok(x.i)
      [] x.t = "str" -> PyIntOfStr(x.s)
      [] OTHER -> Raise("TypeError")

\* d.get(key, default) on a dict modelled as a record.
DictGet(d, key, default) == IF key \in DOMAIN d THEN d[key] ELSE default

\* seq[start:end] of Python, for any integers start and end.
SliceIndex(k, n) == IF k < 0 THEN Max(k + n, 0) ELSE Min(k, n)
PySlice(seq, start, end) ==
    LET lo == SliceIndex(start, Len(seq))
        hi == SliceIndex(end, Len(seq))
    IN  IF lo < hi THEN SubSeq(seq, lo + 1, hi) ELSE <<>>

(***************************************************************************)
(* process_results: the normaliser.                                        *)
(***************************************************************************)
Unknown == PyStr(<<"U", "n", "k", "n", "o", "w", "n">>)

\* The TorrentResult(...) constructor call of the loop body; its arguments
\* are evaluated in order, so the first failing int() decides the exception.
TorrentResultOf(item) ==
    LET seeders == PyIntOf(DictGet(item, "seeders", PyStr(<<"0">>)))
        leechers == PyIntOf(DictGet(item, "leechers", PyStr(<<"0">>)))
        downloads == PyIntOf(DictGet(item, "completed", PyStr(<<"0">>)))
    IN  IF ~seeders.ok THEN seeders
        ELSE IF ~leechers.ok THEN leechers
        ELSE IF ~downloads.ok THEN downloads
        ELSE Ok([title |-> DictGet(item, "title", Unknown),
                 download_link |-> DictGet(item, "torrent", PyStr(<<>>)),
                 size |-> DictGet(item, "size", Unknown),
                 seeders |-> seeders.val,
                 leechers |-> leechers.val,
                 downloads |-> downloads.val,
                 category |-> DictGet(item, "category", Unknown),
                 date |-> DictGet(item, "date", Unknown)])

\* api_response.get("data", [])
ResponseData(api_response) == DictGet(api_response, "data", PyList(<<>>))

process_results(api_response) ==
    LET data == ResponseData(api_response)
    IN  CASE data.t = "none" -> Raise("TypeError")
          [] data.t = "dict" ->
                \* iterating a dict yields its keys, and a str has no .get
                IF DOMAIN data.d = {} THEN Ok(PyList(<<>>))
                ELSE Raise("AttributeError")
          [] data.t = "list" ->
                LET conv == [k \in 1..Len(data.l) |-> TorrentResultOf(data.l[k])]
                    bad == {k \in 1..Len(data.l) : ~conv[k].ok}
                IN  IF bad = {}
                    THEN Ok(PyList([k \in 1..Len(data.l) |-> conv[k].val]))
                    ELSE conv[CHOOSE k \in bad : \A j \in bad : k <= j]
          [] OTHER -> Raise("TypeError")

(***************************************************************************)
(* Inputs.  RawItem(n) is the row the scraper emits for the n-th torrent   *)
(* of a listing; the other responses are the shapes a response can take.   *)
(***************************************************************************)
DefaultPageSize == 10

RawItem(n) ==
    [id |-> PyStr(DecStr(n)),
     title |-> PyStr(<<"r">> \o DecStr(n)),
     category |-> PyStr(<<"A">>),
     size |-> PyStr(DecStr(n) \o <<"G">>),
     time |-> PyStr(<<"2", "0", "2", "4">>),
     seeders |-> PyInt(n),
     leechers |-> PyInt(n + 1),
     completed |-> PyInt(2 * n),
     torrent |-> PyStr(<<"/">> \o DecStr(n))]

Listing(n) == [data |-> PyList([k \in 1..n |-> RawItem(k)])]

EmptyDict == [k \in {} |-> PyNone]

RawResponses ==
    {Listing(n) : n \in 0..MaxLen}
    \cup {EmptyDict,
          [message |-> PyStr(<<"x">>)],
          [data |-> PyList(<<>>), message |-> PyStr(<<"x">>)],
          [data |-> PyNone],
          [data |-> PyDict(EmptyDict)],
          [data |-> PyDict(RawItem(1))],
          [data |-> PyList(<<[title |-> PyStr(<<"s">>), seeders |-> PyStr(<<"1", "2">>),
                              date |-> PyStr(<<"1", " ", "a", "g", "o">>)]>>)],
          [data |-> PyList(<<[title |-> PyStr(<<"b">>), seeders |-> PyStr(<<"a">>)]>>)],
          [data |-> PyList(<<[title |-> PyStr(<<"n">>), leechers |-> PyNone]>>)]}

\* The TorrentResult lists the handler is given: normalised listings.
Recs(n) == process_results(Listing(n)).val.l
ResultSets == {Recs(n) : n \in 0..MaxLen}
PageSizes == 1..MaxPageSize
Selections == (-1)..(MaxPageSize + 1)

Queries == {"naruto"}
Usernames == {"bob"}
QueryLabel(query) == <<query>>
UserLabel(username) == <<"user:", username>>
Labels == {QueryLabel(q) : q \in Queries} \cup {UserLabel(u) : u \in Usernames}

(***************************************************************************)
(* State.                                                                  *)
(***************************************************************************)
VARIABLES
    current_page,          \* ResultHandler._current_page
    results_cache,         \* ResultHandler._results_cache
    last_query,            \* ResultHandler._last_query
    current_page_results,  \* ResultHandler._current_page_results
    ret,                   \* the last ResultHandler call: name, arguments, outcome
    pc,                    \* position of the running command / scenario
    response,              \* local `response` of search / user
    results,               \* local `results` of search / user
    page_size,             \* parameter `page_size` of search / user
    label,                 \* the cache key the command uses
    out,                   \* what the command printed last
    command,               \* local `command` of the navigation loop
    k,                     \* next_page calls made by the end-to-end scenario
    invocation,            \* the command line: command, arguments and options
    request                \* query parameters of the request sent to the service

handler == <<current_page, results_cache, last_query, current_page_results>>
locals == <<pc, response, results, page_size, label, out, command, k,
            invocation, request>>
vars == <<current_page, results_cache, last_query, current_page_results, ret,
          pc, response, results, page_size, label, out, command, k,
          invocation, request>>

\* No command line has been given yet.
NoInvocation == [cmd |-> "none"]

Call(op, args, outcome) == [op |-> op, args |-> args, outcome |-> outcome]
NoArgs == [k0 \in {} |-> PyNone]

\* ResultHandler.__init__ and the module-level state of cli.py before a command.
Init ==
    /\ current_page = 1
    /\ results_cache = [l \in {} |-> <<>>]
    /\ last_query = PyNone
    /\ current_page_results = <<>>
    /\ ret = Call("__init__", NoArgs, Ok(PyNone))
    /\ pc = "idle"
    /\ response = EmptyDict
    /\ results = <<>>
    /\ page_size = DefaultPageSize
    /\ label = <<>>
    /\ out = "none"
    /\ command = "none"
    /\ k = 0
    /\ invocation = NoInvocation
    /\ request = EmptyDict

(***************************************************************************)
(* ResultHandler operations.                                               *)
(***************************************************************************)
\* The window with start_idx computed from the 0-based page number.
PageWindowFromPage(rs, page, size) ==
    LET start_idx == page * size
        end_idx == start_idx + size
    IN  PySlice(rs, start_idx, end_idx)

\* results[start_idx:end_idx] of display_results.
PageWindow(rs, page, size) ==
    LET start_idx == (page - 1) * size
        end_idx == start_idx + size
    IN  PySlice(rs, start_idx, end_idx)

\* What display_results returns, and the window it leaves behind, when the
\* handler is on page `page` and its window is `old`.
DisplayReturn(rs, page, size) ==
    IF rs = <<>> THEN <<>> ELSE PageWindow(rs, page, size)

\* A render that leaves the window of the page shown before.
DisplayWindowStale(rs, page, size, old) == old

DisplayWindow(rs, page, size, old) ==
    IF rs = <<>> THEN old ELSE PageWindow(rs, page, size)

display_results(rs, size) ==
    /\ current_page_results' = DisplayWindow(rs, current_page, size, current_page_results)
    /\ ret' = Call("display_results", [results |-> rs, page_size |-> size],
                   Ok(PyList(DisplayReturn(rs, current_page, size))))
    /\ UNCHANGED <<current_page, results_cache, last_query>>

\* The lookup with a strict upper bound on the selection.
DownloadLinkStrict(window, selection) ==
    IF 1 <= selection /\ selection < Len(window)
    THEN PyTuple(<<window[selection].title, window[selection].download_link>>)
    ELSE PyNone

\* The value get_download_link returns for a window and a selection.
DownloadLink(window, selection) ==
    IF 1 <= selection /\ selection <= Len(window)
    THEN PyTuple(<<window[selection].title, window[selection].download_link>>)
    ELSE PyNone

get_download_link(selection) ==
    /\ ret' = Call("get_download_link", [selection |-> selection],
                   Ok(DownloadLink(current_page_results, selection)))
    /\ UNCHANGED handler

\* A store that drops the entries of the other queries.
CachePutOnly(cache, query, rs) == [l \in {query} |-> rs]

\* self._results_cache[query] = results
CachePut(cache, query, rs) ==
    [l \in DOMAIN cache \cup {query} |-> IF l = query THEN rs ELSE cache[l]]

cache_results(query, rs) ==
    /\ results_cache' = CachePut(results_cache, query, rs)
    /\ last_query' = PyStr(query)
    /\ ret' = Call("cache_results", [query |-> query, results |-> rs], Ok(PyNone))
    /\ UNCHANGED <<current_page, current_page_results>>

\* A lookup that answers an empty list for a query never cached.
CacheGetOrEmpty(cache, query) ==
    IF query \in DOMAIN cache THEN PyList(cache[query]) ELSE PyList(<<>>)

\* self._results_cache.get(query)
CacheGet(cache, query) ==
    IF query \in DOMAIN cache THEN PyList(cache[query]) ELSE PyNone

get_cached_results(query) ==
    /\ ret' = Call("get_cached_results", [query |-> query],
                   Ok(CacheGet(results_cache, query)))
    /\ UNCHANGED handler

\* An advance that stops at page 2.
NextPageClamped(page) == IF page < 2 THEN page + 1 ELSE page

NextPageOf(page) == page + 1

next_page ==
    /\ current_page < MaxPage
    /\ current_page' = NextPageOf(current_page)
    /\ ret' = Call("next_page", NoArgs, Ok(PyNone))
    /\ UNCHANGED <<results_cache, last_query, current_page_results>>

\* A retreat without the floor at page 1.
PreviousPageNoFloor(page) == page - 1

PreviousPageOf(page) == IF page > 1 THEN page - 1 ELSE page

previous_page ==
    /\ current_page' = PreviousPageOf(current_page)
    /\ ret' = Call("previous_page", NoArgs, Ok(PyNone))
    /\ UNCHANGED <<results_cache, last_query, current_page_results>>

\* A reset that leaves the page where it is.
ResetPageKept(page) == page

ResetPageOf(page) == 1

reset_pagination ==
    /\ current_page' = ResetPageOf(current_page)
    /\ ret' = Call("reset_pagination", NoArgs, Ok(PyNone))
    /\ UNCHANGED <<results_cache, last_query, current_page_results>>

(***************************************************************************)
(* Spec: any sequence of calls on one ResultHandler.                       *)
(***************************************************************************)
CallProcessResults ==
    /\ \E r \in RawResponses :
          ret' = Call("process_results", [api_response |-> r], process_results(r))
    /\ UNCHANGED <<handler, locals>>

CallDisplayResults ==
    /\ \E rs \in ResultSets, size \in PageSizes : display_results(rs, size)
    /\ UNCHANGED locals

CallGetDownloadLink ==
    /\ \E selection \in Selections : get_download_link(selection)
    /\ UNCHANGED locals

CallCacheResults ==
    /\ \E query \in Labels, rs \in ResultSets : cache_results(query, rs)
    /\ UNCHANGED locals

CallGetCachedResults ==
    /\ \E query \in Labels : get_cached_results(query)
    /\ UNCHANGED locals

CallNextPage == next_page /\ UNCHANGED locals

CallPreviousPage == previous_page /\ UNCHANGED locals

CallResetPagination == reset_pagination /\ UNCHANGED locals

Next ==
    \/ CallProcessResults
    \/ CallDisplayResults
    \/ CallGetDownloadLink
    \/ CallCacheResults
    \/ CallGetCachedResults
    \/ CallNextPage
    \/ CallPreviousPage
    \/ CallResetPagination

Spec == Init /\ [][Next]_vars

(***************************************************************************)
(* SpecCLI: the search and user commands of cli.py on the module-level     *)
(* result_handler.  A command function that has returned can be called     *)
(* again on the same handler.                                              *)
(***************************************************************************)
cmdLocals == <<response, results, page_size, label, k, invocation, request>>

InvokeSearch ==
    /\ pc = "idle"
    /\ \E query \in Queries, size \in PageSizes :
          /\ label' = QueryLabel(query)
          /\ page_size' = size
    /\ pc' = "call"
    /\ out' = "none"
    /\ UNCHANGED <<handler, ret, response, results, command, k, invocation, request>>

InvokeUser ==
    /\ pc = "idle"
    /\ \E username \in Usernames, size \in PageSizes :
          /\ label' = UserLabel(username)
          /\ page_size' = size
    /\ pc' = "call"
    /\ out' = "none"
    /\ UNCHANGED <<handler, ret, response, results, command, k, invocation, request>>

\* api_client.search_anime / search_by_user returns a response ...
ApiReturn ==
    /\ pc = "call"
    /\ response' \in RawResponses
    /\ pc' = "fetched"
    /\ UNCHANGED <<handler, ret, results, page_size, label, out, command, k,
                   invocation, request>>

\* A handler that reports every exception as an empty result.
ErrorReportAsEmpty(exc) == "No results found"

\* The two except clauses of the command: what is printed for an exception.
ErrorReport(exc) == IF exc = "NyaaAPIError" THEN "Error" ELSE "unexpected error"

\* ... or raises NyaaAPIError, which the command reports.
ApiFail ==
    /\ pc = "call"
    /\ out' = ErrorReport("NyaaAPIError")
    /\ pc' = "done"
    /\ UNCHANGED <<handler, ret, cmdLocals, command>>

CmdProcess ==
    /\ pc = "fetched"
    /\ LET o == process_results(response)
       IN  /\ ret' = Call("process_results", [api_response |-> response], o)
           /\ IF o.ok
              THEN results' = o.val.l /\ pc' = "processed" /\ out' = out
              ELSE results' = results /\ pc' = "done" /\ out' = ErrorReport(o.exc)
    /\ UNCHANGED <<handler, response, page_size, label, command, k, invocation, request>>

CmdCache ==
    /\ pc = "processed"
    /\ cache_results(label, results)
    /\ pc' = "cached"
    /\ UNCHANGED <<cmdLocals, command, out>>

\* A command that renders without resetting the page.
CmdResetPageSkipped(page) == page

\* The page reset the command makes between caching and the first render.
CmdResetPage(page) == ResetPageOf(page)

CmdReset ==
    /\ pc = "cached"
    /\ current_page' = CmdResetPage(current_page)
    /\ ret' = Call("reset_pagination", NoArgs, Ok(PyNone))
    /\ pc' = "reset"
    /\ UNCHANGED <<results_cache, last_query, current_page_results, cmdLocals, command, out>>

Shown(rs) == IF rs = <<>> THEN "No results found" ELSE "table"

CmdFirstDisplay ==
    /\ pc = "reset"
    /\ display_results(results, page_size)
    /\ pc' = "prompt"
    /\ out' = Shown(results)
    /\ UNCHANGED <<cmdLocals, command>>

\* command == "n": next_page, then display_results on the new page.
CmdNext ==
    /\ pc = "prompt"
    /\ command' = "n"
    /\ current_page < MaxPage
    /\ current_page' = NextPageOf(current_page)
    /\ current_page_results' =
          DisplayWindow(results, current_page', page_size, current_page_results)
    /\ ret' = Call("display_results", [results |-> results, page_size |-> page_size],
                   Ok(PyList(DisplayReturn(results, current_page', page_size))))
    /\ out' = Shown(results)
    /\ UNCHANGED <<results_cache, last_query, pc, cmdLocals>>

\* command == "p": previous_page, then display_results on the new page.
CmdPrevious ==
    /\ pc = "prompt"
    /\ command' = "p"
    /\ current_page' = PreviousPageOf(current_page)
    /\ current_page_results' =
          DisplayWindow(results, current_page', page_size, current_page_results)
    /\ ret' = Call("display_results", [results |-> results, page_size |-> page_size],
                   Ok(PyList(DisplayReturn(results, current_page', page_size))))
    /\ out' = Shown(results)
    /\ UNCHANGED <<results_cache, last_query, pc, cmdLocals>>

\* command == "d": handle_download_selection.
CmdDownload ==
    /\ pc = "prompt"
    /\ command' = "d"
    /\ \E selection \in Selections :
          /\ get_download_link(selection)
          /\ out' = IF DownloadLink(current_page_results, selection) # PyNone
                    THEN "Selected" ELSE "Invalid selection"
    /\ UNCHANGED <<pc, cmdLocals>>

CmdHelp ==
    /\ pc = "prompt"
    /\ command' = "h"
    /\ out' = "help"
    /\ UNCHANGED <<handler, ret, pc, cmdLocals>>

CmdQuit ==
    /\ pc = "prompt"
    /\ command' = "q"
    /\ pc' = "done"
    /\ UNCHANGED <<handler, ret, cmdLocals, out>>

\* The command function has returned; its locals are gone, the handler stays.
CallAgain ==
    /\ pc = "done"
    /\ pc' = "idle"
    /\ response' = EmptyDict
    /\ results' = <<>>
    /\ page_size' = DefaultPageSize
    /\ label' = <<>>
    /\ out' = "none"
    /\ command' = "none"
    /\ UNCHANGED <<handler, ret, k, invocation, request>>

NextCLI ==
    \/ InvokeSearch
    \/ InvokeUser
    \/ ApiReturn
    \/ ApiFail
    \/ CmdProcess
    \/ CmdCache
    \/ CmdReset
    \/ CmdFirstDisplay
    \/ CmdNext
    \/ CmdPrevious
    \/ CmdDownload
    \/ CmdHelp
    \/ CmdQuit
    \/ CallAgain

SpecCLI == Init /\ [][NextCLI]_vars

\* SpecCLI1: one command in a fresh process, as the `nyaa` entry point runs it.
NextCLI1 ==
    \/ InvokeSearch
    \/ InvokeUser
    \/ ApiReturn
    \/ ApiFail
    \/ CmdProcess
    \/ CmdCache
    \/ CmdReset
    \/ CmdFirstDisplay
    \/ CmdNext
    \/ CmdPrevious
    \/ CmdDownload
    \/ CmdHelp
    \/ CmdQuit

SpecCLI1 == Init /\ [][NextCLI1]_vars

(***************************************************************************)
(* SpecE2E: the end-to-end scenario: cache_results, reset_pagination,      *)
(* display_results, then next_page and display_results k times, and a      *)
(* get_download_link at the end.  It starts on a handler that earlier      *)
(* next_page calls may have left on any page.                              *)
(***************************************************************************)
E2EResultSets == ResultSets \cup {Recs(25)}
E2EPageSizes == PageSizes \cup {DefaultPageSize}
E2ESelections == Selections \cup {DefaultPageSize, DefaultPageSize + 1}

InitE2E ==
    /\ current_page \in 1..MaxPage
    /\ results_cache = [l \in {} |-> <<>>]
    /\ last_query = PyNone
    /\ current_page_results = <<>>
    /\ ret = Call("__init__", NoArgs, Ok(PyNone))
    /\ pc = "e2e_start"
    /\ response = EmptyDict
    /\ results \in E2EResultSets
    /\ page_size \in E2EPageSizes
    /\ label \in Labels
    /\ out = "none"
    /\ command = "none"
    /\ k = 0
    /\ invocation = NoInvocation
    /\ request = EmptyDict

E2ECache ==
    /\ pc = "e2e_start"
    /\ cache_results(label, results)
    /\ pc' = "e2e_cached"
    /\ UNCHANGED <<cmdLocals, command, out>>

E2EReset ==
    /\ pc = "e2e_cached"
    /\ reset_pagination
    /\ pc' = "e2e_reset"
    /\ UNCHANGED <<cmdLocals, command, out>>

E2ERender ==
    /\ pc \in {"e2e_reset", "e2e_next"}
    /\ display_results(results, page_size)
    /\ pc' = "e2e_rendered"
    /\ UNCHANGED <<cmdLocals, command, out>>

E2ENext ==
    /\ pc = "e2e_rendered"
    /\ next_page
    /\ k' = k + 1
    /\ pc' = "e2e_next"
    /\ UNCHANGED <<response, results, page_size, label, command, out,
                   invocation, request>>

E2EResolve ==
    /\ pc = "e2e_rendered"
    /\ \E selection \in E2ESelections : get_download_link(selection)
    /\ pc' = "e2e_resolved"
    /\ UNCHANGED <<cmdLocals, command, out>>

NextE2E ==
    \/ E2ECache
    \/ E2EReset
    \/ E2ERender
    \/ E2ENext
    \/ E2EResolve

SpecE2E == InitE2E /\ [][NextE2E]_vars

(***************************************************************************)
(* SpecNorm: process_results applied, as at cli.py line 310, to responses  *)
(* of one record whose numeric and date fields take every shape: an int, a *)
(* numeric or non-numeric str, null, or no key at all.                     *)
(***************************************************************************)
Missing == [t |-> "missing"]

SeederValues ==
    {Missing, PyNone, PyInt(5), PyStr(<<"1", "2">>), PyStr(<<" ", "7">>),
     PyStr(<<"a", "b", "c">>), PyStr(<<>>)}
LeecherValues == {Missing, PyNone, PyInt(0), PyStr(<<"3">>), PyStr(<<"1", ".", "5">>)}
CompletedValues == {Missing, PyInt(40), PyStr(<<"-", "1">>), PyStr(<<"x">>)}
DateValues ==
    {Missing, PyNone, PyInt(1700000000),
     PyStr(<<"2", " ", "h", "o", "u", "r", "s", " ", "a", "g", "o">>),
     PyStr(<<"2", "0", "2", "4", "-", "0", "1", "-", "0", "2", " ",
             "0", "3", ":", "0", "4">>),
     PyStr(<<"0", "2", "/", "0", "1", "/", "2", "0", "2", "4">>)}
TimeValues ==
    {Missing,
     PyStr(<<"2", "0", "2", "3", "-", "1", "2", "-", "3", "1", " ",
             "2", "3", ":", "5", "9">>)}

\* The dict with the keys that are given a value.
ItemOf(seeders, leechers, completed, date, time) ==
    LET given == [seeders |-> seeders, leechers |-> leechers, completed |-> completed,
                  date |-> date, time |-> time, title |-> PyStr(<<"t">>)]
    IN  [f \in {g \in DOMAIN given : given[g].t # "missing"} |-> given[f]]

NormResponses ==
    {[data |-> PyList(<<ItemOf(s, l, c, d, t)>>)] :
        s \in SeederValues, l \in LeecherValues, c \in CompletedValues,
        d \in DateValues, t \in TimeValues}

InitNorm ==
    /\ current_page = 1
    /\ results_cache = [l \in {} |-> <<>>]
    /\ last_query = PyNone
    /\ current_page_results = <<>>
    /\ ret = Call("__init__", NoArgs, Ok(PyNone))
    /\ pc = "fetched"
    /\ response \in NormResponses
    /\ results = <<>>
    /\ page_size = DefaultPageSize
    /\ label = QueryLabel("naruto")
    /\ out = "none"
    /\ command = "none"
    /\ k = 0
    /\ invocation = NoInvocation
    /\ request = EmptyDict

NextNorm == CmdProcess

SpecNorm == InitNorm /\ [][NextNorm]_vars

(***************************************************************************)
(* SpecPages: _display_pagination_info called with a result count and a    *)
(* page size on a handler that is on any page.                             *)
(***************************************************************************)
Totals == (0..(MaxLen * MaxPageSize + 2)) \cup {25}

\* A total_pages computed by rounding down.
PageCountFloor(total_results, size) == total_results \div size

\* total_pages of _display_pagination_info.
PageCount(total_results, size) == (total_results + size - 1) \div size

\* The line "Page {page} of {total_pages} (Total results: {total_results})".
PaginationLine(page, total_results, size) ==
    [page |-> page,
     total_pages |-> PageCount(total_results, size),
     total_results |-> total_results]

InitPages ==
    /\ current_page \in 1..MaxPage
    /\ results_cache = [l \in {} |-> <<>>]
    /\ last_query = PyNone
    /\ current_page_results = <<>>
    /\ ret = Call("__init__", NoArgs, Ok(PyNone))
    /\ pc = "idle"
    /\ response = EmptyDict
    /\ results = <<>>
    /\ page_size = DefaultPageSize
    /\ label = <<>>
    /\ out = "none"
    /\ command = "none"
    /\ k = 0
    /\ invocation = NoInvocation
    /\ request = EmptyDict

CallDisplayPaginationInfo ==
    /\ \E total_results \in Totals, size \in E2EPageSizes :
          /\ out' = PaginationLine(current_page, total_results, size)
          /\ ret' = Call("_display_pagination_info",
                         [total_results |-> total_results, page_size |-> size],
                         Ok(PyNone))
    /\ UNCHANGED <<handler, pc, cmdLocals, command>>

NextPages == CallDisplayPaginationInfo

SpecPages == InitPages /\ [][NextPages]_vars

(***************************************************************************)
(* SpecRequest: the search and user commands up to the request the adapter *)
(* sends: the command line, then search_anime / search_by_user building    *)
(* the query parameters.                                                   *)
(***************************************************************************)
\* NyaaAPI.SUBCATEGORY_ANIME_ENG, the default of the -s option.
SUBCATEGORY_ANIME_ENG == "eng"

CATEGORY_CODES ==
    [all |-> "0_0", anime_eng |-> "1_2", anime_non_eng |-> "1_3",
     anime_raw |-> "1_4", anime_amv |-> "1_1"]

\* The values documented for -s in HELP_TEXT and listed in SUBCATEGORY_CHOICES.
SUBCATEGORY_CHOICES == {"English-translated", "Non-English-translated", "Raw"}

\* "" stands for an option that was not given.
SubcategoryOptions ==
    {"", "eng", "non-eng", "raw", "amv", "ENG"} \cup SUBCATEGORY_CHOICES
SortOptions == {"", "seeders"}
OrderOptions == {"asc", "desc"}
RequestQueries == {"naruto", "one piece"}
UserQueries == {""} \cup RequestQueries

\* The value typer hands to the command for a str option with a default.
OptionValue(given, default) == IF given = "" THEN default ELSE given

\* cat_code of search_anime and search_by_user.
CatCode(category, subcategory) ==
    IF category = "anime"
    THEN CASE subcategory = "eng" -> CATEGORY_CODES["anime_eng"]
           [] subcategory = "non-eng" -> CATEGORY_CODES["anime_non_eng"]
           [] subcategory = "raw" -> CATEGORY_CODES["anime_raw"]
           [] subcategory = "amv" -> CATEGORY_CODES["anime_amv"]
           [] OTHER -> "1_0"
    ELSE "0_0"

\* params of search_anime; sort and order are accepted and not sent.
SearchParams(query, category, subcategory, sort, order) ==
    [q |-> query, c |-> CatCode(category, subcategory), f |-> "0"]

\* params of search_by_user; q is added for a non-empty query.
UserParams(username, query, category, subcategory) ==
    IF query # ""
    THEN [u |-> username, c |-> CatCode(category, subcategory), f |-> "0", q |-> query]
    ELSE [u |-> username, c |-> CatCode(category, subcategory), f |-> "0"]

RunSearch ==
    /\ pc = "idle"
    /\ \E query \in RequestQueries, sub \in SubcategoryOptions,
          sort \in SortOptions, order \in OrderOptions :
          invocation' = [cmd |-> "search", query |-> query, given |-> sub,
                         subcategory |-> OptionValue(sub, SUBCATEGORY_ANIME_ENG),
                         sort |-> sort, order |-> order]
    /\ pc' = "call"
    /\ UNCHANGED <<handler, ret, response, results, page_size, label, out, command, k,
                   request>>

RunUser ==
    /\ pc = "idle"
    /\ \E username \in Usernames, query \in UserQueries, sub \in SubcategoryOptions :
          invocation' = [cmd |-> "user", username |-> username, query |-> query,
                         given |-> sub,
                         subcategory |-> OptionValue(sub, SUBCATEGORY_ANIME_ENG)]
    /\ pc' = "call"
    /\ UNCHANGED <<handler, ret, response, results, page_size, label, out, command, k,
                   request>>

SendSearch ==
    /\ pc = "call"
    /\ invocation.cmd = "search"
    /\ request' = SearchParams(invocation.query, "anime", invocation.subcategory,
                               invocation.sort, invocation.order)
    /\ pc' = "sent"
    /\ UNCHANGED <<handler, ret, response, results, page_size, label, out, command, k,
                   invocation>>

SendUser ==
    /\ pc = "call"
    /\ invocation.cmd = "user"
    /\ request' = UserParams(invocation.username, invocation.query, "anime",
                             invocation.subcategory)
    /\ pc' = "sent"
    /\ UNCHANGED <<handler, ret, response, results, page_size, label, out, command, k,
                   invocation>>

NextRequest ==
    \/ RunSearch
    \/ RunUser
    \/ SendSearch
    \/ SendUser

SpecRequest == Init /\ [][NextRequest]_vars

(***************************************************************************)
(* Properties.                                                             *)
(***************************************************************************)

\* C1: a display_results call on non-empty results returns exactly the
\* records results[(p-1)*page_size : (p-1)*page_size + page_size] of the
\* current page p, in order, and leaves that same slice as the page window;
\* a page past the last one gives an empty window and no exception.
C1_PageSlice ==
    (ret.op = "display_results" /\ ret.args.results # <<>>) =>
        LET rs == ret.args.results
            start == (current_page - 1) * ret.args.page_size
            n == Max(0, Min(ret.args.page_size, Len(rs) - start))
        IN  /\ ret.outcome.ok
            /\ ret.outcome.val.t = "list"
            /\ Len(ret.outcome.val.l) = n
            /\ \A i \in 1..n : ret.outcome.val.l[i] = rs[start + i]
            /\ current_page_results = ret.outcome.val.l

\* C1 witness: the short last page (3 records, page size 2, page 2).
C1_Witness ==
    /\ ret.op = "display_results"
    /\ Len(ret.args.results) = 3
    /\ ret.args.page_size = 2
    /\ current_page = 2
    /\ Len(current_page_results) = 1
    /\ current_page_results[1] = ret.args.results[3]

\* C2: a display_results call with empty results returns an empty list
\* without raising and leaves the page window empty.
C2_EmptyRenderClearsWindow ==
    (ret.op = "display_results" /\ ret.args.results = <<>>) =>
        /\ ret.outcome.ok
        /\ ret.outcome.val = PyList(<<>>)
        /\ current_page_results = <<>>

\* C3: get_download_link(ordinal) returns (title, download_link) of
\* window[ordinal-1] when 1 <= ordinal <= len(window), returns None
\* otherwise, never raises and changes no handler state.
C3_ResolveSelection ==
    /\ [](ret.op = "get_download_link" =>
            LET j == ret.args.selection
                w == current_page_results
            IN  /\ ret.outcome.ok
                /\ IF 1 <= j /\ j <= Len(w)
                   THEN ret.outcome.val = PyTuple(<<w[j].title, w[j].download_link>>)
                   ELSE ret.outcome.val = PyNone)
    /\ [][ret'.op = "get_download_link" =>
            /\ current_page' = current_page
            /\ results_cache' = results_cache
            /\ last_query' = last_query
            /\ current_page_results' = current_page_results]_vars

\* C3 witness: ordinal len(window)+1 on a non-empty window gave no match.
C3_Witness ==
    /\ ret.op = "get_download_link"
    /\ current_page_results # <<>>
    /\ ret.args.selection = Len(current_page_results) + 1
    /\ ret.outcome.val = PyNone

\* C4: in the end-to-end scenario, the render after k next_page calls
\* returns the records R[k*s+1 .. k*s+s] that exist, and a following
\* get_download_link(j) with j inside that window returns the title and
\* download link of R[k*s + j] (1-based).
C4_EndToEnd ==
    LET s == page_size
        n == Max(0, Min(s, Len(results) - k * s))
    IN  /\ pc = "e2e_rendered" =>
              /\ ret.outcome.val.t = "list"
              /\ Len(ret.outcome.val.l) = n
              /\ \A i \in 1..n : ret.outcome.val.l[i] = results[k * s + i]
        /\ (pc = "e2e_resolved" /\ 1 <= ret.args.selection /\ ret.args.selection <= n) =>
              ret.outcome.val =
                  PyTuple(<<results[k * s + ret.args.selection].title,
                            results[k * s + ret.args.selection].download_link>>)

\* C4 witness: 25 records, page size 10, one next_page, selection 1 gives r11.
C4_Witness ==
    /\ pc = "e2e_resolved"
    /\ Len(results) = 25
    /\ page_size = 10
    /\ k = 1
    /\ ret.args.selection = 1
    /\ ret.outcome.val.t = "tuple"
    /\ ret.outcome.val.e[1] = PyStr(<<"r", "1", "1">>)
    /\ Len(current_page_results) = 10

\* C5: current_page >= 1 always; previous_page takes exactly one off
\* current_page when it is above 1 and leaves page 1 alone.
C5_PageFloor ==
    /\ [](current_page >= 1)
    /\ [][ret'.op = "previous_page" =>
            current_page' = IF current_page > 1 THEN current_page - 1 ELSE 1]_vars

\* C5 witness: previous_page has been called and the handler is on page 1.
C5_Witness ==
    /\ ret.op = "previous_page"
    /\ current_page = 1

\* C6: next_page adds exactly 1 to current_page whatever the result count,
\* and a display_results on a page that starts at or past the end of the
\* results returns an empty list without raising.
C6_NextUnbounded ==
    /\ [][ret'.op = "next_page" => current_page' = current_page + 1]_vars
    /\ [](ret.op = "display_results" /\
          (current_page - 1) * ret.args.page_size >= Len(ret.args.results) =>
              ret.outcome.ok /\ ret.outcome.val = PyList(<<>>))

\* C6 witness: a render of non-empty results on a page past the last one.
C6_Witness ==
    /\ ret.op = "display_results"
    /\ ret.args.results # <<>>
    /\ current_page > 1
    /\ (current_page - 1) * ret.args.page_size >= Len(ret.args.results)
    /\ ret.outcome.val = PyList(<<>>)
    /\ current_page_results = <<>>

\* C7: cache_results(label, results) sets cache[label] and nothing else:
\* current_page, the page window and every other label's entry stay.
C7_CacheFrame ==
    [][ret'.op = "cache_results" =>
          /\ current_page' = current_page
          /\ current_page_results' = current_page_results
          /\ ret'.args.query \in DOMAIN results_cache'
          /\ results_cache'[ret'.args.query] = ret'.args.results
          /\ \A l \in Labels \ {ret'.args.query} :
                /\ (l \in DOMAIN results_cache') = (l \in DOMAIN results_cache)
                /\ l \in DOMAIN results_cache => results_cache'[l] = results_cache[l]]_vars

\* C7 witness: cache_results was called off page 1 with a non-empty window
\* and another label cached.
C7_Witness ==
    /\ ret.op = "cache_results"
    /\ current_page > 1
    /\ current_page_results # <<>>
    /\ \E l \in DOMAIN results_cache : l # ret.args.query /\ results_cache[l] # <<>>

\* C8: get_cached_results(label) returns what the latest cache_results for
\* that label stored and None if there was none, and changes nothing: no
\* label is cached at the start, only cache_results(label, results) changes
\* the cache and it sets that label's entry to results, and the lookup
\* returns the label's entry.
C8_LookupCached ==
    /\ DOMAIN results_cache = {}
    /\ [][IF ret'.op = "cache_results"
          THEN /\ ret'.args.query \in DOMAIN results_cache'
               /\ results_cache'[ret'.args.query] = ret'.args.results
               /\ \A l \in Labels \ {ret'.args.query} :
                     /\ (l \in DOMAIN results_cache') = (l \in DOMAIN results_cache)
                     /\ l \in DOMAIN results_cache => results_cache'[l] = results_cache[l]
          ELSE results_cache' = results_cache]_vars
    /\ [](ret.op = "get_cached_results" =>
            /\ ret.outcome.ok
            /\ IF ret.args.query \in DOMAIN results_cache
               THEN ret.outcome.val = PyList(results_cache[ret.args.query])
               ELSE ret.outcome.val = PyNone)
    /\ [][ret'.op = "get_cached_results" =>
            /\ current_page' = current_page
            /\ results_cache' = results_cache
            /\ last_query' = last_query
            /\ current_page_results' = current_page_results]_vars

\* C8 witness: a lookup returned one label's results while the other label
\* holds different ones.
C8_Witness ==
    /\ ret.op = "get_cached_results"
    /\ ret.outcome.val.t = "list"
    /\ ret.outcome.val.l # <<>>
    /\ \E l \in DOMAIN results_cache :
          l # ret.args.query /\ results_cache[l] # ret.outcome.val.l

\* C9: in the search and user commands cache_results is followed by
\* reset_pagination and only then by the first display_results, so the
\* first page rendered for a new query is page 1.
C9_ResetBeforeFirstRender ==
    /\ [][pc = "cached" =>
            pc' = "reset" /\ ret'.op = "reset_pagination" /\ current_page' = 1]_vars
    /\ [][pc' = "cached" => pc = "processed" /\ ret'.op = "cache_results"]_vars
    /\ [][pc = "reset" =>
            /\ pc' = "prompt"
            /\ ret'.op = "display_results"
            /\ current_page' = 1
            /\ ret'.args.results = results
            /\ ret'.outcome.val.l = SubSeq(results, 1, Min(page_size, Len(results)))]_vars

\* C9 witness: a fresh search has been cached while the handler is still on
\* a later page left by the previous command.
C9_Witness ==
    /\ pc = "cached"
    /\ current_page > 1
    /\ results # <<>>
    /\ ret.op = "cache_results"

\* C10: process_results returns an empty list, without raising, when the
\* response has no `data` key, an empty `data` list or a null `data`.
C10_NoDataGivesEmpty ==
    (ret.op = "process_results" /\
     LET r == ret.args.api_response
     IN  \/ "data" \notin DOMAIN r
         \/ r.data.t = "none"
         \/ (r.data.t = "list" /\ r.data.l = <<>>)) =>
        ret.outcome.ok /\ ret.outcome.val = PyList(<<>>)

\* C11: each numeric field (seeders, leechers, downloads from `completed`)
\* of the result is the integer value of the upstream value when that parses
\* as an integer and 0 when the value is missing, null or a non-numeric
\* string, and process_results does not raise on such a record.
C11_NumericFieldsDefault ==
    (ret.op = "process_results" /\ pc # "fetched") =>
        LET item == ret.args.api_response.data.l[1]
            want(key) == IF key \in DOMAIN item /\ PyIntOf(item[key]).ok
                         THEN PyIntOf(item[key]).val ELSE 0
        IN  /\ ret.outcome.ok
            /\ ret.outcome.val.l[1].seeders = want("seeders")
            /\ ret.outcome.val.l[1].leechers = want("leechers")
            /\ ret.outcome.val.l[1].downloads = want("completed")

\* C12: a record that carries its date under `time` and has no `date` key
\* gets the date it would get had the value been supplied under `date`.
C12_TimeIsDateSynonym ==
    (ret.op = "process_results" /\ pc # "fetched" /\ ret.outcome.ok) =>
        LET item == ret.args.api_response.data.l[1]
            renamed == [f \in (DOMAIN item \ {"time"}) \cup {"date"} |->
                           IF f = "date" THEN item["time"] ELSE item[f]]
        IN  ("time" \in DOMAIN item /\ "date" \notin DOMAIN item) =>
                ret.outcome.val.l[1].date = TorrentResultOf(renamed).val.date

\* C13: the normalised date is the raw date unchanged when that is a
\* relative-time string (it contains "ago") or a `YYYY-MM-DD HH:MM` string,
\* and "Unknown" for a raw date of any other shape.
C13_DateByShape ==
    (ret.op = "process_results" /\ pc # "fetched" /\ ret.outcome.ok) =>
        LET item == ret.args.api_response.data.l[1]
            HasAgo(s) == \E i \in 1..(Len(s) - 2) :
                            /\ s[i] \in {"a", "A"}
                            /\ s[i + 1] \in {"g", "G"}
                            /\ s[i + 2] \in {"o", "O"}
            IsAbsolute(s) ==
                /\ Len(s) = 16
                /\ \A i \in {1, 2, 3, 4, 6, 7, 9, 10, 12, 13, 15, 16} : IsDigit(s[i])
                /\ s[5] = "-" /\ s[8] = "-" /\ s[11] = " " /\ s[14] = ":"
            accepted(v) == v.t = "str" /\ (HasAgo(v.s) \/ IsAbsolute(v.s))
        IN  "date" \in DOMAIN item =>
                ret.outcome.val.l[1].date =
                    IF accepted(item["date"]) THEN item["date"] ELSE Unknown

\* C14: the total-pages value of the pagination line is the ceiling of
\* total / page_size: the least n with n * page_size >= total; it is 0 for
\* total 0 and 3 for total 25 and page size 10.
C14_PageCountCeiling ==
    ret.op = "_display_pagination_info" =>
        LET total == ret.args.total_results
            size == ret.args.page_size
            n == out.total_pages
        IN  /\ n >= 0
            /\ n * size >= total
            /\ (n - 1) * size < total
            /\ total = 0 => n = 0
            /\ (total = 25 /\ size = 10) => n = 3
            /\ out.total_results = total
            /\ out.page = current_page

\* C14 witness: 25 results with page size 10 were announced as 3 pages.
C14_Witness ==
    /\ ret.op = "_display_pagination_info"
    /\ ret.args.total_results = 25
    /\ ret.args.page_size = 10
    /\ out.total_pages = 3

\* C15: when the adapter raises NyaaAPIError in a search or user command,
\* nothing of the handler has run or runs: from the start of the command to
\* its end the cache, the page, the page window and the last handler call
\* are what they were, and the command prints an error, not "No results
\* found".
C15_ApiFailureLeavesHandler ==
    /\ [][pc' = "call" =>
            /\ pc = "idle"
            /\ current_page' = current_page
            /\ results_cache' = results_cache
            /\ last_query' = last_query
            /\ current_page_results' = current_page_results
            /\ ret' = ret]_vars
    /\ [][(pc = "call" /\ pc' = "done") =>
            /\ out' = "Error"
            /\ out' # Shown(<<>>)
            /\ current_page' = current_page
            /\ results_cache' = results_cache
            /\ last_query' = last_query
            /\ current_page_results' = current_page_results
            /\ ret' = ret]_vars
    /\ [][pc = "call" => pc' \in {"done", "fetched"}]_vars

\* C15 witness: a command ended on an adapter failure with the handler still
\* holding the cache, page and window of an earlier command.
C15_Witness ==
    /\ pc = "done"
    /\ out = "Error"
    /\ current_page > 1
    /\ current_page_results # <<>>
    /\ DOMAIN results_cache # {}
    /\ ret.op = "display_results"

\* C16: the -s option filters by the documented subcategories: for
\* English-translated, Non-English-translated and Raw the request carries
\* category code 1_2, 1_3 and 1_4, and without the option it carries 1_2.
C16_SubcategoryCodes ==
    pc = "sent" =>
        /\ invocation.given = "English-translated" => request.c = "1_2"
        /\ invocation.given = "Non-English-translated" => request.c = "1_3"
        /\ invocation.given = "Raw" => request.c = "1_4"
        /\ invocation.given = "" => request.c = "1_2"

\* C17: in the navigation loop of a command run in a fresh process, whenever
\* a command (so also every d command) is handled, the page window is
\* results[(current_page-1)*page_size : (current_page-1)*page_size +
\* page_size] of the command's results and page size: the selection resolves
\* against the page shown last.
C17_WindowIsShownPage ==
    pc = "prompt" =>
        LET start == (current_page - 1) * page_size
            n == Max(0, Min(page_size, Len(results) - start))
        IN  /\ Len(current_page_results) = n
            /\ \A i \in 1..n : current_page_results[i] = results[start + i]
            /\ command = "d" =>
                  /\ ret.op = "get_download_link"
                  /\ (1 <= ret.args.selection /\ ret.args.selection <= n) =>
                        ret.outcome.val =
                            PyTuple(<<results[start + ret.args.selection].title,
                                      results[start + ret.args.selection].download_link>>)

\* C17 witness: a d command resolved a selection on page 2 after navigation.
C17_Witness ==
    /\ pc = "prompt"
    /\ command = "d"
    /\ current_page = 2
    /\ current_page_results # <<>>
    /\ ret.op = "get_download_link"
    /\ ret.outcome.val.t = "tuple"

====
